---- MODULE Spec2Model ----
(***************************************************************************)
(* Model of the quote-request handler (netlify/functions/quote-request.js, *)
(* exports.handler, lines 18-216): the per-IP rate limiter kept in         *)
(* globalThis.__hits, the configuration check, body parsing, the honeypot, *)
(* the validation chain, the business e-mail and the fire-and-forget       *)
(* confirmation e-mail.                                                    *)
(*                                                                         *)
(* The repository holds two more handlers: a second one in the same file   *)
(* (export const handler, lines 221-314) and the one of unnamed/part_000.  *)
(* A function has one handler; each of the three is modelled by its own    *)
(* actions and has its own specification (SpecPart000, SpecEsm).  The      *)
(* rate limiter, the honeypot, the validation chain and the responses      *)
(* {ok, id} that the properties below speak of are those of the first      *)
(* handler, and Spec, SpecRate and SpecRequests are its specifications.    *)
(*                                                                         *)
(* JavaScript values are tagged records.  A string is a sequence of        *)
(* one-character strings; a string literal of the program is kept as one   *)
(* opaque chunk (the program never trims, splits or matches its literals). *)
(***************************************************************************)
EXTENDS Integers, Sequences, FiniteSets, TLC

VARIABLES
    now,      \* the wall clock read by Date.now(), in milliseconds
    env,      \* process.env: MAILERSEND_TOKEN, MAILERSEND_FROM, MAILERSEND_TO
    hits,     \* globalThis.__hits: client identifier -> timestamps
    inv,      \* the invocations of the handler, in order of arrival
    outbox    \* the fetch() calls made to the e-mail provider, in order

vars == <<now, env, hits, inv, outbox>>

----------------------------------------------------------------------------
(* JavaScript values *)

Undefined == [t |-> "undefined"]
Null      == [t |-> "null"]
Bool(b)   == [t |-> "boolean", b |-> b]
Num(n)    == [t |-> "number", n |-> n]
Str(s)    == [t |-> "string", s |-> s]
Arr(a)    == [t |-> "array", a |-> a]
Obj(f)    == [t |-> "object", f |-> f]

Lit(chunk) == Str(<<chunk>>)
EmptyStr   == Str(<<>>)
EmptyObj   == Obj(<<>>)

\* ToBoolean
Truthy(v) ==
    CASE v.t = "undefined" -> FALSE
      [] v.t = "null"      -> FALSE
      [] v.t = "boolean"   -> v.b
      [] v.t = "number"    -> v.n # 0
      [] v.t = "string"    -> v.s # <<>>
      [] OTHER             -> TRUE

\* a || b
Or(a, b) == IF Truthy(a) THEN a ELSE b

\* v.k and v[k] throw a TypeError on undefined and null
Nullish(v) == v.t \in {"undefined", "null"}

\* v.k for a value that is not nullish: only the own keys of a parsed object
\* are defined
Get(v, k) == IF v.t = "object" /\ k \in DOMAIN v.f THEN v.f[k] ELSE Undefined

\* The white space and line terminators of ECMAScript.  A character that
\* has no escape in a TLA+ string is written by its code point.
WhiteSpace ==
    {" ", "\t", "\n", "\r", "\f", "U+000B", "U+00A0", "U+1680", "U+2000",
     "U+2001", "U+2002", "U+2003", "U+2004", "U+2005", "U+2006", "U+2007",
     "U+2008", "U+2009", "U+200A", "U+2028", "U+2029", "U+202F", "U+205F",
     "U+3000", "U+FEFF"}

\* \s of the regular expressions and of String.prototype.trim
IsSpace(c) == c \in WhiteSpace

RECURSIVE TrimStart(_)
TrimStart(s) ==
    IF s # <<>> /\ IsSpace(Head(s)) THEN TrimStart(Tail(s)) ELSE s

RECURSIVE TrimEnd(_)
TrimEnd(s) ==
    IF s # <<>> /\ IsSpace(s[Len(s)])
    THEN TrimEnd(SubSeq(s, 1, Len(s) - 1)) ELSE s

\* String.prototype.trim
Trim(s) == TrimEnd(TrimStart(s))

\* s.split(",")[0]: the part of s before its first comma
RECURSIVE SplitFirst(_)
SplitFirst(s) ==
    IF s = <<>> \/ Head(s) = "," THEN <<>>
    ELSE <<Head(s)>> \o SplitFirst(Tail(s))

Digit(d) == <<"0", "1", "2", "3", "4", "5", "6", "7", "8", "9">>[d + 1]

RECURSIVE Digits(_)
Digits(n) == IF n < 10 THEN <<Digit(n)>> ELSE Digits(n \div 10) \o <<Digit(n % 10)>>

\* Number::toString of an integer (the numbers of the model are integers of
\* a magnitude below 10^21: a fraction or an exponent has no value here)
NumberToString(n) == IF n < 0 THEN <<"-">> \o Digits(0 - n) ELSE Digits(n)

\* ToString(v) throws a TypeError: a parsed object with an own key "toString"
\* hides Object.prototype.toString behind a value that cannot be called, and
\* valueOf (its own, not callable, or the inherited one, which returns the
\* object) yields no primitive; an array throws through the join of its
\* elements
RECURSIVE StringThrows(_)
StringThrows(v) ==
    CASE v.t = "object" -> "toString" \in DOMAIN v.f
      [] v.t = "array"  -> \E i \in 1..Len(v.a) : StringThrows(v.a[i])
      [] OTHER          -> FALSE

\* ToString(v), as RegExp.prototype.test, String() and a template literal
\* apply it, for a value on which it does not throw
RECURSIVE JsString(_)
RECURSIVE Join(_)
Join(a) ==
    IF a = <<>> THEN <<>>
    ELSE (IF Nullish(Head(a)) THEN <<>> ELSE JsString(Head(a)))
         \o (IF Len(a) > 1 THEN <<",">> \o Join(Tail(a)) ELSE <<>>)
JsString(v) ==
    CASE v.t = "undefined" -> <<"u", "n", "d", "e", "f", "i", "n", "e", "d">>
      [] v.t = "null"      -> <<"n", "u", "l", "l">>
      [] v.t = "boolean"   -> IF v.b THEN <<"t", "r", "u", "e">>
                                     ELSE <<"f", "a", "l", "s", "e">>
      [] v.t = "number"    -> NumberToString(v.n)
      [] v.t = "string"    -> v.s
      [] v.t = "array"     -> Join(v.a)
      [] OTHER             -> <<"[", "o", "b", "j", "e", "c", "t", " ",
                                "O", "b", "j", "e", "c", "t", "]">>

----------------------------------------------------------------------------
(* Responses *)

CorsHeaders ==
    [ContentType |-> "application/json",
     AccessControlAllowOrigin |-> "*",
     AccessControlAllowHeaders |-> "Content-Type",
     AccessControlAllowMethods |-> "POST, OPTIONS"]

\* json(status, data); the body is kept as the data JSON.stringify encodes
json(status, data) ==
    [statusCode |-> status, headers |-> CorsHeaders, body |-> data]

\* no response: the invocation has not returned
NoResponse == [statusCode |-> 0, headers |-> <<>>, body |-> <<>>]

TooManyRequests == Lit("Too many requests. Please try again later.")
NotConfigured   == Lit("Server not configured. Missing env vars.")
BadJson         == Lit("Bad JSON")
MethodNotAllowed == Lit("Method not allowed")
SendFailed      == Lit("Email send failed. Please try again or call 07305 848484.")
NetworkError    == Lit("Network error sending email. Please try again later.")
Sent            == Lit("sent")

----------------------------------------------------------------------------
(* 0) The per-IP rate limit *)

RATE      == 5
WINDOW_MS == 10 * 60 * 1000

Unknown == <<"u", "n", "k", "n", "o", "w", "n">>

\* event.headers["x-forwarded-for"] || event.headers["client-ip"] || ""
ForwardedFor(event) ==
    Or(Or(Get(event.headers, "x-forwarded-for"),
          Get(event.headers, "client-ip")),
       EmptyStr)

\* the step throws a TypeError when event.headers is undefined or when the
\* header chosen is not a string (it has no split method)
RateLimitThrows(event) ==
    \/ Nullish(event.headers)
    \/ ForwardedFor(event).t # "string"

\* (...).split(",")[0].trim() || "unknown"
ClientIp(event) ==
    LET first == Trim(SplitFirst(ForwardedFor(event).s))
    IN  IF first = <<>> THEN Unknown ELSE first

\* store.get(ip) || []
StoreGet(store, ip) == IF ip \in DOMAIN store THEN store[ip] ELSE <<>>

\* variants: nothing is dropped; an entry exactly one window old is kept
FilterWindowNoPrune(bucket, t) == bucket
FilterWindowInclusive(bucket, t) ==
    SelectSeq(bucket, LAMBDA x : t - x <= WINDOW_MS)

\* .filter((t) => now - t < WINDOW_MS)
FilterWindow(bucket, t) ==
    SelectSeq(bucket, LAMBDA x : t - x < WINDOW_MS)

\* variant: the bucket is replaced, not extended
PushNowOverwrite(bucket, t) == <<t>>

\* bucket.push(now)
PushNow(bucket, t) == Append(bucket, t)

\* store.set(ip, bucket)
StoreSet(store, ip, bucket) ==
    [k \in DOMAIN store \cup {ip} |-> IF k = ip THEN bucket ELSE store[k]]

\* variant: one request more is let through
OverLimitOffByOne(bucket) == Len(bucket) > RATE + 1

\* bucket.length > RATE
OverLimit(bucket) == Len(bucket) > RATE

\* variant: a failure of the step rejects the request
RateLimitFailClosed(event, store, t) ==
    IF RateLimitThrows(event)
    THEN [rl |-> "rejected", ip |-> <<>>, store |-> store]
    ELSE LET ip     == ClientIp(event)
             bucket == PushNow(FilterWindow(StoreGet(store, ip), t), t)
         IN  [rl    |-> IF OverLimit(bucket) THEN "rejected" ELSE "admitted",
              ip    |-> ip,
              store |-> StoreSet(store, ip, bucket)]

\* the whole try block of lines 23-39, and the catch of lines 40-43:
\* what it leaves in the store and whether it returns the 429
RateLimit(event, store, t) ==
    IF RateLimitThrows(event)
    THEN [rl |-> "failed", ip |-> <<>>, store |-> store]
    ELSE LET ip     == ClientIp(event)
             bucket == PushNow(FilterWindow(StoreGet(store, ip), t), t)
         IN  [rl    |-> IF OverLimit(bucket) THEN "rejected" ELSE "admitted",
              ip    |-> ip,
              store |-> StoreSet(store, ip, bucket)]

----------------------------------------------------------------------------
(* 1) The configuration *)

\* variant: only the token is looked at
MissingEnvTokenOnly(e) == ~Truthy(e.MAILERSEND_TOKEN)

\* !API_TOKEN || !FROM_EMAIL || !TO_EMAIL
MissingEnv(e) ==
    \/ ~Truthy(e.MAILERSEND_TOKEN)
    \/ ~Truthy(e.MAILERSEND_FROM)
    \/ ~Truthy(e.MAILERSEND_TO)

----------------------------------------------------------------------------
(* 2) Parsing and validation *)

\* The text of a request body: the JSON text of a value, or a text that is
\* no JSON.  Both are non-empty strings.
JsonText(v) == [t |-> "jsontext", v |-> v]
BadText     == [t |-> "badtext"]

\* event.body || "{}"
BodyText(event) == Or(event.body, JsonText(EmptyObj))

\* JSON.parse throws a SyntaxError
ParseThrows(event) == BodyText(event).t # "jsontext"

\* JSON.parse(event.body || "{}")
Payload(event) == BodyText(event).v

\* payload.company throws a TypeError when the body parsed to null
HoneypotThrows(payload) == Nullish(payload)
\* variant: the honeypot is not looked at
HoneypotOff(payload) == FALSE
Honeypot(payload) == Truthy(Get(payload, "company"))

\* one destructured name with its default: the default is taken only when
\* the property is undefined
Default(src, k, dflt) == IF Get(src, k) = Undefined THEN dflt ELSE Get(src, k)

\* const { fullName = "", ..., attachments = [] } = payload || {}
Destructure(payload) ==
    LET src == Or(payload, EmptyObj)
    IN  [fullName    |-> Default(src, "fullName", EmptyStr),
         phone       |-> Default(src, "phone", EmptyStr),
         email       |-> Default(src, "email", EmptyStr),
         address     |-> Default(src, "address",
                                 Or(Or(Get(payload, "address"),
                                       Get(payload, "postcode")),
                                    EmptyStr)),
         service     |-> Default(src, "service", EmptyStr),
         date        |-> Default(src, "date", EmptyStr),
         message     |-> Default(src, "message", EmptyStr),
         attachments |-> Default(src, "attachments", Arr(<<>>))]

\* /^\S+@\S+\.\S+$/.test(v)
EmailTest(v) ==
    LET s == JsString(v)
    IN  /\ \A i \in 1..Len(s) : ~IsSpace(s[i])
        /\ \E i \in 2..Len(s) : \E j \in (i + 2)..(Len(s) - 1) :
               s[i] = "@" /\ s[j] = "."

\* v.trim() throws a TypeError when v is not a string
TrimThrows(v) == v.t # "string"
Blank(v) == Trim(v.s) = <<>>

\* the chain of lines 78-91, first failure first; "" is its null, and
\* "TypeError" the exception of a .trim() on a value that is no string or of
\* the regular expression's ToString on an e-mail that has no string form
Missing(f) ==
    IF TrimThrows(f.fullName) THEN "TypeError"
    ELSE IF Blank(f.fullName) THEN "name"
    ELSE IF StringThrows(f.email) THEN "TypeError"
    ELSE IF ~EmailTest(f.email) THEN "valid email"
    ELSE IF TrimThrows(f.phone) THEN "TypeError"
    ELSE IF Blank(f.phone) THEN "phone"
    ELSE IF TrimThrows(f.address) THEN "TypeError"
    ELSE IF Blank(f.address) THEN "postcode"
    ELSE IF ~Truthy(f.service) THEN "service"
    ELSE IF TrimThrows(f.message) THEN "TypeError"
    ELSE IF Blank(f.message) THEN "message"
    ELSE ""

\* `Please provide a ${missing}.`
PleaseProvide(missing) == Str(<<"Please provide a ">> \o <<missing>> \o <<".">>)

----------------------------------------------------------------------------
(* 3) and 4) The content of the business e-mail *)

\* String(s || "").toString()
safe(s) == JsString(Or(s, EmptyStr))

\* String(s || "") throws a TypeError
SafeThrows(s) == StringThrows(Or(s, EmptyStr))

\* lines 98-123: a field without a string form throws out of the subject,
\* the text or the html, before any request is made
ContentThrows(f) ==
    \/ SafeThrows(f.fullName) \/ SafeThrows(f.service)
    \/ SafeThrows(f.phone) \/ SafeThrows(f.email) \/ SafeThrows(f.address)
    \/ SafeThrows(f.date) \/ SafeThrows(f.message)
    \/ SafeThrows(Or(f.date, Lit("n/a")))

\* the characters of the program's literals that are not ASCII, written by
\* their code points
Apostrophe == "U+2019"
EmDash     == "U+2014"
CheckMark  == "U+2705"

\* `New Quote Request \u2014 ${safe(fullName)} (${safe(service)})`
Subject(f) ==
    Str(<<"New Quote Request ", EmDash, " ">> \o safe(f.fullName) \o <<" (">>
        \o safe(f.service) \o <<")">>)

TextBody(f) ==
    Str(<<"New quote request\n\nFull name: ">> \o safe(f.fullName)
        \o <<"\nPhone: ">> \o safe(f.phone)
        \o <<"\nEmail: ">> \o safe(f.email)
        \o <<"\nPostcode: ">> \o safe(f.address)
        \o <<"\nService: ">> \o safe(f.service)
        \o <<"\nPreferred date: ">> \o safe(f.date)
        \o <<"\n\nMessage:\n">> \o TrimEnd(safe(f.message)))

\* .replace(/\n/g, "<br>")
RECURSIVE ReplaceNewlines(_)
ReplaceNewlines(s) ==
    IF s = <<>> THEN <<>>
    ELSE (IF Head(s) = "\n" THEN <<"<br>">> ELSE <<Head(s)>>)
         \o ReplaceNewlines(Tail(s))

HtmlBody(f) ==
    Str(<<"<h2>New quote request</h2>\n  <p><strong>Full name:</strong> ">>
        \o safe(f.fullName)
        \o <<"</p>\n  <p><strong>Phone:</strong> ">> \o safe(f.phone)
        \o <<"</p>\n  <p><strong>Email:</strong> ">> \o safe(f.email)
        \o <<"</p>\n  <p><strong>Postcode:</strong> ">> \o safe(f.address)
        \o <<"</p>\n  <p><strong>Service:</strong> ">> \o safe(f.service)
        \o <<"</p>\n  <p><strong>Preferred date:</strong> ">>
        \o safe(Or(f.date, Lit("n/a")))
        \o <<"</p>\n  <p><strong>Message:</strong><br>">>
        \o ReplaceNewlines(safe(f.message)) \o <<"</p>">>)

MAX_ATTACHMENTS == 5

Min(a, b) == IF a < b THEN a ELSE b

\* attachments.slice(0, 5)
Slice(a) == SubSeq(a, 1, Min(Len(a), MAX_ATTACHMENTS))

\* Array.isArray(attachments) && attachments.length
HasAttachments(att) == att.t = "array" /\ att.a # <<>>

\* a.filename throws a TypeError on an entry that is null
AttachmentsThrow(att) ==
    /\ HasAttachments(att)
    /\ \E i \in 1..Len(Slice(att.a)) : Nullish(Slice(att.a)[i])

\* .map((a, i) => ({ filename: a.filename || `photo-${i + 1}.jpg`,
\*                   content: a.base64 || "" }))
MsAttachments(att) ==
    IF HasAttachments(att)
    THEN [i \in 1..Len(Slice(att.a)) |->
             [filename |-> Or(Get(Slice(att.a)[i], "filename"),
                              Str(<<"photo-">> \o Digits(i) \o <<".jpg">>)),
              content  |-> Or(Get(Slice(att.a)[i], "base64"), EmptyStr)]]
    ELSE <<>>

\* the request of lines 137-152, made by invocation i: the bearer token of
\* its Authorization header and the body it posts
BusinessEmail(i, e, f) ==
    [inv         |-> i,
     kind        |-> "business",
     bearer      |-> e.MAILERSEND_TOKEN,
     from        |-> [email |-> e.MAILERSEND_FROM],
     to          |-> <<[email |-> e.MAILERSEND_TO]>>,
     reply_to    |-> [email |-> f.email],
     subject     |-> Subject(f),
     text        |-> TextBody(f),
     html        |-> HtmlBody(f),
     attachments |-> MsAttachments(f.attachments)]

\* the line break and the indentation between two tags of the template
\* literal of lines 192-200
Indent19 == "\n                   "
Indent21 == "\n                     "

\* the request of lines 172-202, made by invocation i; its body has no
\* reply_to and no attachments.  The template literals convert fields that safe() has converted before them, so
\* they do not throw.
ConfirmationEmail(i, e, f) ==
    [inv         |-> i,
     kind        |-> "confirmation",
     bearer      |-> e.MAILERSEND_TOKEN,
     from        |-> [email |-> e.MAILERSEND_FROM,
                      name  |-> Lit("ET Handyman Services")],
     to          |-> <<[email |-> f.email]>>,
     subject     |-> Str(<<"We", Apostrophe, "ve received your quote request ",
                          CheckMark>>),
     text        |-> Str(<<"Hi ">> \o JsString(Or(f.fullName, EmptyStr))
                         \o <<",\n\nThanks for your request. Here", Apostrophe,
                              "s what we got:\n- Service: ">>
                         \o JsString(Or(f.service, Lit("Handyman service")))
                         \o <<"\n- Postcode/Address: ">>
                         \o JsString(Or(f.address, EmptyStr))
                         \o <<"\n- Preferred date: ">>
                         \o JsString(Or(f.date, Lit("Not specified")))
                         \o <<"\n\nWe", Apostrophe,
                              "ll contact you shortly. If urgent, call 07305 848484.\n\n",
                              EmDash, " ET Handyman Services">>),
     html        |-> Str(<<"<p>Hi ">> \o JsString(Or(f.fullName, Lit("there")))
                         \o <<",</p>", Indent19,
                              "<p>Thanks for your request. We", Apostrophe,
                              "ve logged the details below:</p>",
                              Indent19, "<ul>", Indent21, "<li><b>Service:</b> ">>
                         \o JsString(Or(f.service, Lit("Handyman service")))
                         \o <<"</li>", Indent21, "<li><b>Postcode/Address:</b> ">>
                         \o JsString(Or(f.address, EmptyStr))
                         \o <<"</li>", Indent21, "<li><b>Preferred date:</b> ">>
                         \o JsString(Or(f.date, Lit("Not specified")))
                         \o <<"</li>", Indent19, "</ul>", Indent19,
                              "<p>We", Apostrophe,
                              "ll get back to you shortly. For urgent jobs, call <a href=\"tel:+447305848484\">07305 848484</a>.</p>",
                              Indent19, "<p>", EmDash, " ET Handyman Services</p>">>)]

----------------------------------------------------------------------------
(* The handler *)

\* An invocation: its event, the Date.now() and ip of its rate-limit step
\* (rl: "skipped" for a method that returns before it, "failed" when the
\* step threw, else "admitted" or "rejected"), its position (pc: "fetch" and
\* "json" are the two awaits of lines 137 and 157, "returned" and "threw"
\* its two ends), its response, its destructured fields, resp.ok, data, and
\* its confirmation e-mail ("none", "pending", "sent", "refused", "failed").
Returned(response) == [pc |-> "returned", response |-> response, f |-> <<>>]
Threw(f)           == [pc |-> "threw", response |-> NoResponse, f |-> f]
Awaiting(f)        == [pc |-> "fetch", response |-> NoResponse, f |-> f]

\* lines 54-133 and the call of line 137: from JSON.parse to the first await
Validate(event) ==
    IF ParseThrows(event)
    THEN Returned(json(400, [error |-> BadJson]))
    ELSE IF HoneypotThrows(Payload(event))
    THEN Threw(<<>>)
    ELSE IF Honeypot(Payload(event))
    THEN Returned(json(200, [ok |-> TRUE, skipped |-> TRUE]))
    ELSE LET f == Destructure(Payload(event))
         IN  IF Missing(f) = "TypeError" THEN Threw(f)
             ELSE IF Missing(f) # ""
             THEN Returned(json(400, [error |-> PleaseProvide(Missing(f))]))
             ELSE IF ContentThrows(f) THEN Threw(f)
             ELSE IF AttachmentsThrow(f.attachments) THEN Threw(f)
             ELSE Awaiting(f)

\* lines 19-52, then Validate: the synchronous part of an invocation, given
\* the outcome rl of its rate-limit step
Sync(event, e, rl) ==
    IF event.httpMethod = "OPTIONS"
    THEN Returned(json(200, [ok |-> TRUE]))
    ELSE IF event.httpMethod # "POST"
    THEN Returned(json(405, [error |-> MethodNotAllowed]))
    ELSE IF rl = "rejected"
    THEN Returned(json(429, [error |-> TooManyRequests]))
    ELSE IF MissingEnv(e)
    THEN Returned(json(500, [error |-> NotConfigured]))
    ELSE Validate(event)

\* the rate-limit step is run for POST only
Limiter(event, store, t) ==
    IF event.httpMethod = "POST"
    THEN RateLimit(event, store, t)
    ELSE [rl |-> "skipped", ip |-> <<>>, store |-> store]

\* A request arrives: the handler runs to its first await or to its end.
Start(event) ==
    LET i  == Len(inv) + 1
        r  == Limiter(event, hits, now)
        s  == Sync(event, env, r.rl)
    IN  /\ hits' = r.store
        /\ inv' = Append(inv, [event |-> event, t0 |-> now, rl |-> r.rl,
                               ip |-> r.ip, pc |-> s.pc,
                               response |-> s.response, f |-> s.f,
                               ok |-> FALSE, data |-> EmptyObj,
                               conf |-> "none"])
        /\ outbox' = IF s.pc = "fetch"
                     THEN Append(outbox, BusinessEmail(i, env, s.f))
                     ELSE outbox
        /\ UNCHANGED <<now, env>>

\* await fetch(...) of line 137 settles: the provider answered (resp.ok or
\* not), or the call failed and the catch of line 210 answers
FetchSettles(i, outcome) ==
    /\ i \in 1..Len(inv)
    /\ inv[i].pc = "fetch"
    /\ inv' = [inv EXCEPT ![i] =
                  IF outcome = "rejected"
                  THEN [@ EXCEPT !.pc = "returned",
                                 !.response = json(500, [error |-> NetworkError])]
                  ELSE [@ EXCEPT !.pc = "json", !.ok = (outcome = "ok")]]
    /\ UNCHANGED <<now, env, hits, outbox>>

\* data?.k
OptGet(data, k) == IF Nullish(data) THEN Undefined ELSE Get(data, k)

\* variant: a refusal of the provider is reported as a success
FailureAsSuccess(data) ==
    json(200, [ok |-> TRUE, id |-> Or(OptGet(data, "message_id"), Sent)])

\* lines 160-167
FailureResponse(data) ==
    json(500, [error |-> Or(OptGet(data, "message"), SendFailed)])

\* line 209
SuccessResponse(data) ==
    json(200, [ok |-> TRUE, id |-> Or(OptGet(data, "message_id"), Sent)])

\* await resp.json() of line 157 settles with the provider's data (a body
\* that is no JSON leaves data = {}); then lines 160-209 run to the return
JsonSettles(i, body) ==
    /\ i \in 1..Len(inv)
    /\ inv[i].pc = "json"
    /\ LET data == IF body.t = "jsontext" THEN body.v ELSE EmptyObj
       IN  IF ~inv[i].ok
           THEN /\ inv' = [inv EXCEPT ![i].pc = "returned",
                                      ![i].data = data,
                                      ![i].response = FailureResponse(data)]
                /\ UNCHANGED outbox
           ELSE /\ inv' = [inv EXCEPT ![i].pc = "returned",
                                      ![i].data = data,
                                      ![i].conf = "pending",
                                      ![i].response = SuccessResponse(data)]
                /\ outbox' = Append(outbox, ConfirmationEmail(i, env, inv[i].f))
    /\ UNCHANGED <<now, env, hits>>

\* the await fetch(...) of line 172 settles, inside the detached async
\* function: a rejection is caught and logged (line 204), nothing else reads
\* the result
ConfirmationSettles(i, outcome) ==
    /\ i \in 1..Len(inv)
    /\ inv[i].conf = "pending"
    /\ inv' = [inv EXCEPT ![i].conf = outcome]
    /\ UNCHANGED <<now, env, hits, outbox>>

\* time passes
Tick(d) ==
    /\ now' = now + d
    /\ UNCHANGED <<env, hits, inv, outbox>>

\* the runtime drops a finished invocation (it has returned or thrown, and
\* its confirmation e-mail has settled) together with its settled requests
Finished(r) == r.pc \in {"returned", "threw"} /\ r.conf # "pending"

Retire ==
    /\ inv # <<>>
    /\ \A i \in 1..Len(inv) : Finished(inv[i])
    /\ inv' = <<>>
    /\ outbox' = <<>>
    /\ UNCHANGED <<now, env, hits>>

----------------------------------------------------------------------------
(* The handler of unnamed/part_000: exports.handler without the rate-limit   *)
(* step, the postcode fallback and the confirmation e-mail                  *)

\* lines 45-54: address = ""
Destructure000(payload) ==
    [Destructure(payload) EXCEPT
        !.address = Default(Or(payload, EmptyObj), "address", EmptyStr)]

\* line 76: the em dash of the subject is kept as the three characters a
\* wrong decoding left in the file
Subject000(f) ==
    Str(<<"New Quote Request ", "U+00E2", "U+20AC", "U+201D", " ">>
        \o safe(f.fullName) \o <<" (">> \o safe(f.service) \o <<")">>)

\* lines 107-110: .map((a) => ({ filename: a.filename || "photo",
\*                               content: a.base64 || "" }))
MsAttachments000(att) ==
    IF HasAttachments(att)
    THEN [i \in 1..Len(Slice(att.a)) |->
             [filename |-> Or(Get(Slice(att.a)[i], "filename"), Lit("photo")),
              content  |-> Or(Get(Slice(att.a)[i], "base64"), EmptyStr)]]
    ELSE <<>>

\* the request of lines 115-130
BusinessEmail000(i, e, f) ==
    [BusinessEmail(i, e, f) EXCEPT
        !.subject = Subject000(f),
        !.attachments = MsAttachments000(f.attachments)]

\* the two awaits of lines 115 and 134
Awaiting000(f) == [pc |-> "fetch000", response |-> NoResponse, f |-> f]

\* lines 32-111 and the call of line 115
Validate000(event) ==
    IF ParseThrows(event)
    THEN Returned(json(400, [error |-> BadJson]))
    ELSE IF HoneypotThrows(Payload(event))
    THEN Threw(<<>>)
    ELSE IF Honeypot(Payload(event))
    THEN Returned(json(200, [ok |-> TRUE, skipped |-> TRUE]))
    ELSE LET f == Destructure000(Payload(event))
         IN  IF Missing(f) = "TypeError" THEN Threw(f)
             ELSE IF Missing(f) # ""
             THEN Returned(json(400, [error |-> PleaseProvide(Missing(f))]))
             ELSE IF ContentThrows(f) THEN Threw(f)
             ELSE IF AttachmentsThrow(f.attachments) THEN Threw(f)
             ELSE Awaiting000(f)

\* lines 19-30, then Validate000
Sync000(event, e) ==
    IF event.httpMethod = "OPTIONS"
    THEN Returned(json(200, [ok |-> TRUE]))
    ELSE IF event.httpMethod # "POST"
    THEN Returned(json(405, [error |-> MethodNotAllowed]))
    ELSE IF MissingEnv(e)
    THEN Returned(json(500, [error |-> NotConfigured]))
    ELSE Validate000(event)

\* A request arrives at the handler of part_000; the store is not touched.
Start000(event) ==
    LET i == Len(inv) + 1
        s == Sync000(event, env)
    IN  /\ inv' = Append(inv, [event |-> event, t0 |-> now, rl |-> "skipped",
                               ip |-> <<>>, pc |-> s.pc,
                               response |-> s.response, f |-> s.f,
                               ok |-> FALSE, data |-> EmptyObj,
                               conf |-> "none"])
        /\ outbox' = IF s.pc = "fetch000"
                     THEN Append(outbox, BusinessEmail000(i, env, s.f))
                     ELSE outbox
        /\ UNCHANGED <<now, env, hits>>

\* await fetch(...) of line 115 settles
FetchSettles000(i, outcome) ==
    /\ i \in 1..Len(inv)
    /\ inv[i].pc = "fetch000"
    /\ inv' = [inv EXCEPT ![i] =
                  IF outcome = "rejected"
                  THEN [@ EXCEPT !.pc = "returned",
                                 !.response = json(500, [error |-> NetworkError])]
                  ELSE [@ EXCEPT !.pc = "json000", !.ok = (outcome = "ok")]]
    /\ UNCHANGED <<now, env, hits, outbox>>

\* await resp.json() of line 134 settles; lines 136-145 run to the return,
\* and no confirmation e-mail follows
JsonSettles000(i, body) ==
    /\ i \in 1..Len(inv)
    /\ inv[i].pc = "json000"
    /\ LET data == IF body.t = "jsontext" THEN body.v ELSE EmptyObj
       IN  inv' = [inv EXCEPT ![i].pc = "returned",
                              ![i].data = data,
                              ![i].response = IF inv[i].ok
                                              THEN SuccessResponse(data)
                                              ELSE FailureResponse(data)]
    /\ UNCHANGED <<now, env, hits, outbox>>

----------------------------------------------------------------------------
(* The second handler of quote-request.js: export const handler, lines      *)
(* 221-314.  It has no method check, rate limit, configuration check,       *)
(* honeypot or validation; it awaits both e-mails, and whatever it catches   *)
(* is answered 500 with the message of the exception.                       *)

\* process.env[k]
EnvGet(e, k) == IF k \in DOMAIN e THEN e[k] ELSE Undefined

\* the default of lines 252 and 253
DefaultAddress == Lit("eli_etremovals@proton.me")

\* the keys JSON.stringify keeps: a property whose value is undefined is
\* left out
Stringified(rec) == [k \in {x \in DOMAIN rec : rec[x] # Undefined} |-> rec[k]]

\* lines 225-234: const { fullName, ..., attachments = [] } = data
EsmDestructure(data) ==
    [fullName    |-> Get(data, "fullName"),
     email       |-> Get(data, "email"),
     phone       |-> Get(data, "phone"),
     address     |-> Get(data, "address"),
     service     |-> Get(data, "service"),
     date        |-> Get(data, "date"),
     message     |-> Get(data, "message"),
     attachments |-> Default(data, "attachments", Arr(<<>>))]

\* a field without a string form throws out of the template of lines 237-248
EsmTextThrows(f) ==
    \/ \E k \in {"fullName", "email", "phone", "address", "service", "message"} :
           StringThrows(f[k])
    \/ StringThrows(Or(f.date, Lit("Not specified")))

\* lines 237-248
EsmText(f) ==
    Str(<<"\nNew quote request from ET Handyman Services website\n\nName: ">>
        \o JsString(f.fullName)
        \o <<"\nEmail: ">> \o JsString(f.email)
        \o <<"\nPhone: ">> \o JsString(f.phone)
        \o <<"\nAddress: ">> \o JsString(f.address)
        \o <<"\nService: ">> \o JsString(f.service)
        \o <<"\nPreferred Date: ">> \o JsString(Or(f.date, Lit("Not specified")))
        \o <<"\nMessage:\n">> \o JsString(f.message) \o <<"\n    ">>)

\* attachments.map(f => ...) throws a TypeError when attachments is no array
\* (it has no map method) and when an entry is null
EsmAttachmentsThrow(att) ==
    \/ att.t # "array"
    \/ \E i \in 1..Len(att.a) : Nullish(att.a[i])

\* lines 267-272
EsmAttachments(att) ==
    [i \in 1..Len(att.a) |->
        Stringified([content     |-> Get(att.a[i], "base64"),
                     filename    |-> Get(att.a[i], "filename"),
                     disposition |-> Lit("attachment"),
                     type        |-> Get(att.a[i], "content_type")])]

\* `Bearer ${MAILERSEND_API_KEY}`: the key as the template converts it
EsmBearer(e) == Str(JsString(EnvGet(e, "MAILERSEND_API_KEY")))

\* the request of lines 256-274
EsmBusinessEmail(i, e, f) ==
    [inv         |-> i,
     kind        |-> "business",
     bearer      |-> EsmBearer(e),
     from        |-> [email |-> Or(EnvGet(e, "MAIL_FROM"), DefaultAddress),
                      name  |-> Lit("ET Handyman Services Website")],
     to          |-> <<[email |-> Or(EnvGet(e, "MAIL_TO"), DefaultAddress),
                        name  |-> Lit("ET Handyman Services")]>>,
     subject     |-> Str(<<"New Quote Request from ">> \o JsString(f.fullName)),
     text        |-> EsmText(f),
     attachments |-> EsmAttachments(f.attachments)]

\* the request of lines 282-300
EsmConfirmationEmail(i, e, f) ==
    [inv         |-> i,
     kind        |-> "confirmation",
     bearer      |-> EsmBearer(e),
     from        |-> [email |-> Or(EnvGet(e, "MAIL_FROM"), DefaultAddress),
                      name  |-> Lit("ET Handyman Services")],
     to          |-> <<Stringified([email |-> f.email, name |-> f.fullName])>>,
     subject     |-> Str(<<"Quote Request Received ", EmDash,
                          " ET Handyman Services">>),
     text        |-> Str(<<"Hi ">> \o JsString(f.fullName)
                         \o <<",\n\nThanks for reaching out! We", Apostrophe,
                              "ve received your quote request for \"">>
                         \o JsString(f.service)
                         \o <<"\" and will get back to you shortly.\n\nKind regards,\nET Handyman Services\n        ">>)]

\* lines 302-305 and 309-312: a response has a status and a body, no headers
EsmResponse(status, data) == [statusCode |-> status, body |-> data]

\* the message of an exception the engine throws; its text is the engine's,
\* and it is not empty
EngineMessage(kind) == Lit(kind)

\* lines 307-313: catch (err)
EsmCatch(message) ==
    [pc |-> "returned", f |-> <<>>,
     response |-> EsmResponse(500, [error |-> Or(message, Lit("Server error"))])]

\* lines 222-256: from JSON.parse to the first await
EsmSync(event) ==
    IF ParseThrows(event) THEN EsmCatch(EngineMessage("SyntaxError"))
    ELSE IF Nullish(Payload(event)) THEN EsmCatch(EngineMessage("TypeError"))
    ELSE LET f == EsmDestructure(Payload(event))
         IN  IF EsmTextThrows(f) \/ EsmAttachmentsThrow(f.attachments)
             THEN EsmCatch(EngineMessage("TypeError"))
             ELSE [pc |-> "esm_business", response |-> NoResponse, f |-> f]

\* A request of any method arrives at the second handler.
StartEsm(event) ==
    LET i == Len(inv) + 1
        s == EsmSync(event)
    IN  /\ inv' = Append(inv, [event |-> event, t0 |-> now, rl |-> "skipped",
                               ip |-> <<>>, pc |-> s.pc,
                               response |-> s.response, f |-> s.f,
                               ok |-> FALSE, data |-> EmptyObj,
                               conf |-> "none"])
        /\ outbox' = IF s.pc = "esm_business"
                     THEN Append(outbox, EsmBusinessEmail(i, env, s.f))
                     ELSE outbox
        /\ UNCHANGED <<now, env, hits>>

\* await fetch(...) of line 256 settles: a rejection is caught with its
\* message; a refusal goes on to read the text of the answer; a success
\* makes the confirmation request
EsmBusinessSettles(i, outcome, message) ==
    /\ i \in 1..Len(inv)
    /\ inv[i].pc = "esm_business"
    /\ IF outcome = "rejected"
       THEN /\ inv' = [inv EXCEPT ![i].pc = "returned",
                                  ![i].response = EsmCatch(message).response]
            /\ UNCHANGED outbox
       ELSE IF outcome = "not ok"
       THEN /\ inv' = [inv EXCEPT ![i].pc = "esm_text"]
            /\ UNCHANGED outbox
       ELSE /\ inv' = [inv EXCEPT ![i].pc = "esm_confirmation",
                                  ![i].ok = TRUE,
                                  ![i].conf = "pending"]
            /\ outbox' = Append(outbox, EsmConfirmationEmail(i, env, inv[i].f))
    /\ UNCHANGED <<now, env, hits>>

\* await sendBusinessEmail.text() of line 277 settles, and line 278 throws
\* `MailerSend error: ${errText}`
EsmTextSettles(i, outcome, text) ==
    /\ i \in 1..Len(inv)
    /\ inv[i].pc = "esm_text"
    /\ inv' = [inv EXCEPT
                  ![i].pc = "returned",
                  ![i].response =
                      IF outcome = "rejected" THEN EsmCatch(text).response
                      ELSE EsmCatch(Str(<<"MailerSend error: ">> \o text.s)).response]
    /\ UNCHANGED <<now, env, hits, outbox>>

\* await fetch(...) of line 282 settles: the answer is not looked at; a
\* rejection is caught with its message
EsmConfirmationSettles(i, outcome, message) ==
    /\ i \in 1..Len(inv)
    /\ inv[i].pc = "esm_confirmation"
    /\ inv' = [inv EXCEPT
                  ![i].pc = "returned",
                  ![i].conf = outcome,
                  ![i].response =
                      IF outcome = "failed" THEN EsmCatch(message).response
                      ELSE EsmResponse(200, [success |-> TRUE])]
    /\ UNCHANGED <<now, env, hits, outbox>>

----------------------------------------------------------------------------
(* Inputs *)

A_    == <<"a">>
B_    == <<"b">>
Good  == <<"a", "@", "b", ".", "c">>

Env(token, from, to) ==
    [MAILERSEND_TOKEN |-> token, MAILERSEND_FROM |-> from, MAILERSEND_TO |-> to]

Configured == Env(Lit("mlsn_x"), Lit("no-reply@x"), Lit("eli@x"))

Envs ==
    {Configured,
     Env(Undefined, Lit("no-reply@x"), Lit("eli@x")),
     Env(Lit("mlsn_x"), EmptyStr, Lit("eli@x")),
     Env(Lit("mlsn_x"), Lit("no-reply@x"), Undefined)}

Headers(xff, cip) ==
    Obj([k \in {"x-forwarded-for", "client-ip"} |->
            IF k = "x-forwarded-for" THEN xff ELSE cip])

FromA == Headers(Str(A_), Undefined)
FromB == Headers(Str(B_), Undefined)

HeaderShapes ==
    {FromA,
     Headers(Str(<<" ", "a", " ", ",", "b">>), Undefined),
     Headers(Undefined, Str(A_)),
     Headers(EmptyStr, Str(A_)),
     Headers(Undefined, Undefined),
     Headers(Str(<<" ", ",", "a">>), Str(A_)),
     Headers(Num(0), Str(A_)),
     Headers(Num(7), Str(A_)),
     Headers(Arr(<<Str(A_)>>), Undefined),
     Headers(Undefined, Obj(<<>>)),
     Headers(Str(<<"\r", "a", "\r">>), Undefined),
     Undefined}

Event(method, headers, body) ==
    [httpMethod |-> method, headers |-> headers, body |-> body]

Keys == {"fullName", "email", "phone", "address", "postcode", "service",
         "date", "message", "company", "attachments"}

\* the object with the keys of Keys whose value in val is not undefined
Record(val) == Obj([k \in {x \in Keys : val[x] # Undefined} |-> val[k]])

Form(fullName, email, phone, address, service, message) ==
    Record([k \in Keys |->
               CASE k = "fullName" -> fullName
                 [] k = "email"    -> email
                 [] k = "phone"    -> phone
                 [] k = "address"  -> address
                 [] k = "service"  -> service
                 [] k = "message"  -> message
                 [] OTHER          -> Undefined])

ValidForm == Form(Str(A_), Str(Good), Str(A_), Str(A_), Str(A_), Str(A_))

\* form with the key k set to v (removed when v is undefined)
With(form, k, v) == Record([x \in Keys |-> IF x = k THEN v ELSE Get(form, x)])

\* every combination of a few values of the six required fields
Combinations ==
    { Form(n, e, p, a, s, m) :
        n \in {Undefined, Str(A_), Num(5)},
        e \in {Undefined, Str(Good)},
        p \in {Undefined, Str(A_), Num(5)},
        a \in {Undefined, Str(A_)},
        s \in {Undefined, Str(A_)},
        m \in {Undefined, Str(A_), EmptyObj} }

\* objects that have no string form
NoString  == Obj([k \in {"toString"} |-> Num(1)])
NoString2 == Obj([k \in {"toString", "valueOf"} |->
                     IF k = "toString" THEN Num(1) ELSE Num(2)])

Photo == Obj([k \in {"filename", "base64"} |->
                 IF k = "filename" THEN Str(<<"p">>) ELSE Str(<<"Q">>)])

FieldValues(k) ==
    CASE k = "fullName" ->
           {EmptyStr, Str(<<" ", "a", " ">>), Str(<<"\n">>), Str(<<"\r">>),
            Str(<<"\f", "U+00A0">>), Null, Bool(TRUE), Arr(<<>>), EmptyObj,
            NoString}
      [] k = "email" ->
           {EmptyStr, Str(<<"a", "@", "b">>), Str(<<"@", "b", ".", "c">>),
            Str(<<"a", "@", ".", "c">>), Str(<<"a", "@", "b", ".">>),
            Str(<<"a", " ", "@", "b", ".", "c">>),
            Str(<<"a", "@", "@", ".", ".">>),
            Str(<<"a", ".", "b", "@", "c">>),
            Str(<<" ", "a", "@", "b", ".", "c">>),
            Str(<<"a", "\r", "@", "b", ".", "c">>),
            Num(5), Num(0 - 5), EmptyObj, NoString, NoString2,
            Arr(<<NoString>>), Arr(<<Str(Good)>>),
            Arr(<<Str(<<"a">>), Str(<<"@", "b", ".", "c">>)>>)}
      [] k = "phone" -> {EmptyStr, Str(<<" ">>), Str(<<"U+FEFF">>), Num(0), Null}
      [] k = "address" -> {EmptyStr, Str(<<" ">>), Num(5)}
      [] k = "postcode" -> {EmptyStr, Str(A_), Num(5), Null}
      [] k = "service" ->
           {EmptyStr, Str(<<" ">>), Null, Num(5), Num(0 - 5), Bool(FALSE),
            EmptyObj, NoString, Arr(<<>>), Arr(<<Str(A_), NoString2>>)}
      [] k = "date" -> {Str(A_), Num(0), Num(0 - 5), Null, NoString}
      [] k = "message" ->
           {EmptyStr, Str(<<"a", "\n", "b", "\n">>), Str(<<"\f">>), Num(5), Null}
      [] k = "company" -> {EmptyStr, Str(<<"x">>), Num(0), Num(1), Null, EmptyObj}
      [] k = "attachments" ->
           {Arr(<<>>), Arr(<<Photo>>), Arr(<<EmptyObj, Photo>>), Arr(<<Null>>),
            Arr(<<Num(1), Str(A_)>>), Str(A_), Null, EmptyObj,
            Arr([i \in 1..(MAX_ATTACHMENTS + 1) |-> Photo]),
            Arr([i \in 1..(MAX_ATTACHMENTS + 1) |->
                    IF i > MAX_ATTACHMENTS THEN Null ELSE EmptyObj])}

\* the valid form with one key changed, with and without an address
OneKey ==
    UNION { { With(base, k, v) : v \in FieldValues(k) } :
            base \in {ValidForm, With(ValidForm, "address", Undefined)},
            k \in Keys }

\* the honeypot on a valid and on an empty form
Bots ==
    { With(base, "company", v) :
        base \in {ValidForm, EmptyObj}, v \in FieldValues("company") }

\* JSON texts that are no object
Scalars == {Null, Num(0), Num(5), EmptyStr, Str(A_), Bool(FALSE), Bool(TRUE),
            Arr(<<>>)}

Bodies ==
    {Undefined, Null, EmptyStr, BadText}
    \cup {JsonText(v) : v \in Combinations \cup OneKey \cup Bots \cup Scalars}

\* what a request can be
Events ==
    {Event(m, FromA, JsonText(ValidForm)) : m \in {"OPTIONS", "GET", "POST"}}
    \cup {Event("POST", h, JsonText(ValidForm)) : h \in HeaderShapes}
    \cup {Event("POST", h, b) : h \in {FromA, Undefined}, b \in Bodies}

\* what the provider can answer
FetchOutcomes == {"ok", "not ok", "rejected"}
Accepted == JsonText(Obj([k \in {"message_id"} |-> Str(<<"abc">>)]))
ProviderBodies ==
    {Accepted,
     JsonText(Obj([k \in {"message"} |-> Str(<<"bad from">>)])),
     JsonText(EmptyObj), JsonText(Null), BadText}
ConfirmationOutcomes == {"sent", "refused", "failed"}

\* the environment the second handler reads
EsmEnv(key, from, to) ==
    [MAILERSEND_API_KEY |-> key, MAIL_FROM |-> from, MAIL_TO |-> to]

EsmEnvs ==
    {EsmEnv(Lit("mlsn_x"), Lit("no-reply@x"), Lit("eli@x")),
     EsmEnv(Undefined, Undefined, EmptyStr),
     Configured}

\* the message of a rejected fetch, and the text of a refusal
RejectionMessages == {Lit("request failed"), EmptyStr, Undefined}
RefusalTexts == {EmptyStr, Lit("{\"message\":\"bad from\"}")}

----------------------------------------------------------------------------
(* Specifications *)

MaxInv   == 2     \* invocations of one behaviour of Spec
MaxReq   == 7     \* requests of one behaviour of SpecRate
MaxHits  == 7     \* timestamps held by the store in SpecRequests
MaxTicks == 2     \* the clock stops after MaxTicks half windows

HalfWindow == WINDOW_MS \div 2

Init ==
    /\ now = 0
    /\ env \in Envs
    /\ hits = <<>>
    /\ inv = <<>>
    /\ outbox = <<>>

InitConfigured == Init /\ env = Configured

Busy == \E i \in 1..Len(inv) : ~Finished(inv[i])

Clock == now + HalfWindow <= MaxTicks * HalfWindow /\ Tick(HalfWindow)

\* Spec: requests of two clients to a configured server, handled
\* concurrently; the invocations interleave at their awaits.
ConcurrentEvents == {Event("POST", h, JsonText(ValidForm)) : h \in {FromA, FromB}}

Next ==
    \/ \E e \in ConcurrentEvents : Len(inv) < MaxInv /\ Start(e)
    \/ \E i \in 1..Len(inv) : \E o \in {"ok", "rejected"} : FetchSettles(i, o)
    \/ \E i \in 1..Len(inv) : JsonSettles(i, Accepted)
    \/ \E i \in 1..Len(inv) : ConfirmationSettles(i, "failed")
    \/ Clock

Spec == InitConfigured /\ [][Next]_vars

\* SpecRate: requests of two clients to a configured server, one at a time,
\* the provider accepting every e-mail; every invocation is kept.
NextRate ==
    \/ \E e \in ConcurrentEvents : ~Busy /\ Len(inv) < MaxReq /\ Start(e)
    \/ \E i \in 1..Len(inv) : FetchSettles(i, "ok")
    \/ \E i \in 1..Len(inv) : JsonSettles(i, JsonText(EmptyObj))
    \/ \E i \in 1..Len(inv) : ConfirmationSettles(i, "sent")
    \/ ~Busy /\ Clock

SpecRate == InitConfigured /\ [][NextRate]_vars

\* SpecRequests: any request, one at a time, at one instant; a finished
\* invocation is dropped before the next request arrives.
RECURSIVE Total(_)
Total(store) ==
    IF DOMAIN store = {} THEN 0
    ELSE LET k == CHOOSE x \in DOMAIN store : TRUE
         IN  Len(store[k]) + Total([x \in DOMAIN store \ {k} |-> store[x]])

NextRequests ==
    \/ \E e \in Events : inv = <<>> /\ Total(hits) < MaxHits /\ Start(e)
    \/ \E o \in FetchOutcomes : FetchSettles(1, o)
    \/ \E b \in ProviderBodies : JsonSettles(1, b)
    \/ \E o \in ConfirmationOutcomes : ConfirmationSettles(1, o)
    \/ Retire

SpecRequests == Init /\ [][NextRequests]_vars

\* SpecPart000: any request to the handler of unnamed/part_000, one at a
\* time.
NextPart000 ==
    \/ \E e \in Events : inv = <<>> /\ Start000(e)
    \/ \E o \in FetchOutcomes : FetchSettles000(1, o)
    \/ \E b \in ProviderBodies : JsonSettles000(1, b)
    \/ Retire

SpecPart000 == Init /\ [][NextPart000]_vars

\* SpecEsm: any request to the second handler of quote-request.js, one at a
\* time.
InitEsm ==
    /\ now = 0
    /\ env \in EsmEnvs
    /\ hits = <<>>
    /\ inv = <<>>
    /\ outbox = <<>>

NextEsm ==
    \/ \E e \in Events : inv = <<>> /\ StartEsm(e)
    \/ \E o \in FetchOutcomes : \E m \in RejectionMessages :
           EsmBusinessSettles(1, o, m)
    \/ \E t \in RefusalTexts : EsmTextSettles(1, "read", t)
    \/ \E m \in RejectionMessages : EsmTextSettles(1, "rejected", m)
    \/ \E o \in ConfirmationOutcomes : \E m \in RejectionMessages :
           EsmConfirmationSettles(1, o, m)
    \/ Retire

SpecEsm == InitEsm /\ [][NextEsm]_vars

----------------------------------------------------------------------------
(* Properties of the rate limiter *)

Invocations == 1..Len(inv)
Status(i)   == inv[i].response.statusCode

\* the invocations whose rate-limit step computed a client identifier
Limited == {i \in Invocations : inv[i].ip # <<>>}

\* the earlier requests of the client of request i, and those of them made
\* less than one window before it
Prior(i)  == {j \in Limited : j < i /\ inv[j].ip = inv[i].ip}
Recent(i) == {j \in Prior(i) : inv[i].t0 - inv[j].t0 < WINDOW_MS}

Count(bucket, t) == Cardinality({k \in 1..Len(bucket) : bucket[k] = t})

\* C1: of the requests of one client, the first five are not answered 429; a
\* request that follows five others made less than ten minutes before it (the
\* 6th within ten minutes) is answered 429; and a request that comes when ten
\* minutes have passed since the client's last request is not answered 429.
C1_SixthRejectedThenReadmitted ==
    \A i \in Limited :
        /\ Cardinality(Prior(i)) < RATE => Status(i) # 429
        /\ Cardinality(Recent(i)) >= RATE => Status(i) = 429
        /\ Recent(i) = {} => Status(i) # 429

\* six requests of one client within ten minutes, the sixth answered 429, and
\* a seventh, ten minutes after it, answered 200
C1_Witness ==
    \E i \in Limited : \E j \in Prior(i) :
        /\ Cardinality(Recent(j)) = RATE
        /\ Status(j) = 429
        /\ inv[i].t0 - inv[j].t0 >= WINDOW_MS
        /\ Recent(i) = {}
        /\ Status(i) = 200

\* C10: for every client, at most five of its requests made within less than
\* ten minutes are admitted (not answered 429); a request answered 429 is
\* recorded in the bucket like any other, and counts against later requests:
\* a request is answered 429 although fewer than five admitted requests
\* precede it in the window, when five requests in all do.
AdmittedAt(i) == inv[i].rl = "admitted" /\ Status(i) # 429

Latest(i) == \A j \in Limited : inv[j].ip = inv[i].ip => j <= i

C10_AtMostFiveAdmitted ==
    \A i \in Limited :
        /\ AdmittedAt(i) =>
             Cardinality({j \in Recent(i) \cup {i} : AdmittedAt(j)}) <= RATE
        /\ Latest(i) =>
             /\ inv[i].ip \in DOMAIN hits
             /\ Len(hits[inv[i].ip]) = Cardinality(Recent(i)) + 1
             /\ hits[inv[i].ip][Len(hits[inv[i].ip])] = inv[i].t0
        /\ Cardinality(Recent(i)) >= RATE => ~AdmittedAt(i)

\* a request answered 429 with fewer than five admitted requests in the ten
\* minutes before it: one of the five it follows was itself answered 429
C10_Witness ==
    \E i \in Limited :
        /\ Status(i) = 429
        /\ Cardinality({j \in Recent(i) : AdmittedAt(j)}) < RATE
        /\ \E j \in Recent(i) : Status(j) = 429

\* C7 as stated: in every state every bucket holds only timestamps less than
\* ten minutes older than the current time, and its length decides admission.
LastOf(ip) == CHOOSE i \in Limited : inv[i].ip = ip /\ Latest(i)

LengthDecides ==
    \A ip \in DOMAIN hits :
        Status(LastOf(ip)) = 429 <=> Len(hits[ip]) > RATE

C7_Original ==
    /\ \A ip \in DOMAIN hits : \A k \in 1..Len(hits[ip]) :
           now - hits[ip][k] < WINDOW_MS
    /\ LengthDecides

\* C7 amended: every bucket holds only timestamps less than ten minutes older
\* than the client's latest request, which is its last entry (a bucket is
\* pruned when its client sends a request, not as time passes), and the
\* latest request of a client was answered 429 exactly when the bucket it
\* left is longer than five.
C7_PrunedAtRequest ==
    /\ \A ip \in DOMAIN hits :
           /\ hits[ip] # <<>>
           /\ hits[ip][Len(hits[ip])] = inv[LastOf(ip)].t0
           /\ \A k \in 1..Len(hits[ip]) :
                  inv[LastOf(ip)].t0 - hits[ip][k] < WINDOW_MS
    /\ LengthDecides

\* a request has pruned the bucket of its client (an older entry is gone)
\* while the bucket of another client keeps a timestamp ten minutes old
C7_Witness ==
    /\ \E j \in Limited : Count(hits[inv[j].ip], inv[j].t0) = 0
    /\ \E ip \in DOMAIN hits : \E k \in 1..Len(hits[ip]) :
           now - hits[ip][k] >= WINDOW_MS

\* C8: whatever the interleaving of the invocations, the bucket of a client
\* holds exactly one entry for each invocation of that client whose timestamp
\* is less than ten minutes old: none is lost, none is written twice.
C8_NoLostUpdate ==
    \A i \in Limited :
        /\ inv[i].ip \in DOMAIN hits
        /\ now - inv[i].t0 < WINDOW_MS =>
             Count(hits[inv[i].ip], inv[i].t0)
               = Cardinality({j \in Limited : /\ inv[j].ip = inv[i].ip
                                              /\ inv[j].t0 = inv[i].t0})

\* two invocations of one client in flight together, the second started while
\* the first was suspended at an await, and both in the bucket
C8_Witness ==
    \E i, j \in Limited :
        /\ i < j
        /\ inv[i].ip = inv[j].ip
        /\ inv[i].pc \in {"fetch", "json"}
        /\ inv[j].pc \in {"fetch", "json"}
        /\ Len(hits[inv[i].ip]) = 2

----------------------------------------------------------------------------
(* Properties of one request *)

IsPost(i) == inv[i].event.httpMethod = "POST"

\* one of the three configuration values is absent or empty
EnvAbsent == \E k \in DOMAIN env : env[k] \in {Undefined, EmptyStr}

\* the e-mail calls made by invocation i
Calls(i, kind) ==
    {k \in 1..Len(outbox) : outbox[k].inv = i /\ outbox[k].kind = kind}

\* the value the body of request i parses to, when it parses
Parses(i) ==
    \/ inv[i].event.body \in {Undefined, Null, EmptyStr}
    \/ inv[i].event.body.t = "jsontext"
Parsed(i) ==
    IF inv[i].event.body.t = "jsontext" THEN inv[i].event.body.v ELSE EmptyObj

\* the body is a JSON object with a non-empty text as company
CompanySet(i) ==
    /\ Parses(i)
    /\ Parsed(i).t = "object"
    /\ "company" \in DOMAIN Parsed(i).f
    /\ Parsed(i).f["company"].t = "string"
    /\ Parsed(i).f["company"].s # <<>>

Skipped == json(200, [ok |-> TRUE, skipped |-> TRUE])
ConfigurationError == json(500, [error |-> NotConfigured])

\* C2 as stated: a POST whose body has a non-empty company is answered
\* 200 {ok, skipped} whatever the history and the configuration, and makes
\* no e-mail call.
C2_Original ==
    \A i \in Invocations :
        IsPost(i) /\ CompanySet(i) =>
            /\ inv[i].response = Skipped
            /\ Calls(i, "business") \cup Calls(i, "confirmation") = {}

\* C2 amended: a POST whose body has a non-empty company makes no e-mail
\* call; it is answered 429 when the rate limiter rejects it, else 500 when
\* the configuration is incomplete, else 200 {ok, skipped}.
C2_SkippedAfterGates ==
    \A i \in Invocations :
        IsPost(i) /\ CompanySet(i) =>
            /\ Calls(i, "business") \cup Calls(i, "confirmation") = {}
            /\ inv[i].pc = "returned"
            /\ inv[i].rl = "rejected" => Status(i) = 429
            /\ inv[i].rl # "rejected" /\ EnvAbsent =>
                   inv[i].response = ConfigurationError
            /\ inv[i].rl # "rejected" /\ ~EnvAbsent =>
                   inv[i].response = Skipped

\* an otherwise valid form with the honeypot filled in, from a client with
\* earlier requests in its bucket, answered 200 {ok, skipped}
C2_Witness ==
    \E i \in Invocations :
        /\ IsPost(i)
        /\ inv[i].event.body = JsonText(With(ValidForm, "company", Str(<<"x">>)))
        /\ inv[i].rl = "admitted"
        /\ Len(hits[inv[i].ip]) > 1
        /\ inv[i].response = Skipped

\* C3 as stated: with a configuration value absent every POST is answered
\* 500 before anything else: no bucket is touched, no 429 is returned, no
\* call is made.
C3_Original ==
    EnvAbsent =>
        /\ hits = <<>>
        /\ outbox = <<>>
        /\ \A i \in Invocations : IsPost(i) => inv[i].response = ConfigurationError

\* C3 amended: with a configuration value absent, the rate-limit step still
\* runs first (the request is recorded in its client's bucket, and is
\* answered 429 when over the limit); every POST the limiter lets through is
\* answered 500 before its body is parsed or validated, and no call is made.
C3_ConfigAfterRateLimit ==
    EnvAbsent =>
        /\ outbox = <<>>
        /\ \A i \in Invocations : IsPost(i) =>
               /\ inv[i].pc = "returned"
               /\ inv[i].rl = "rejected" => Status(i) = 429
               /\ inv[i].rl # "rejected" => inv[i].response = ConfigurationError
               /\ inv[i].ip # <<>> =>
                      /\ inv[i].ip \in DOMAIN hits
                      /\ hits[inv[i].ip] # <<>>
                      /\ inv[i].rl = "rejected" <=> Len(hits[inv[i].ip]) > RATE

\* with a configuration value absent, a body that would make the handler
\* throw if it were parsed (null) is answered 500, and its request is the
\* fifth in the bucket of its client
C3_Witness ==
    /\ EnvAbsent
    /\ \E i \in Invocations :
           /\ IsPost(i)
           /\ inv[i].event.body = JsonText(Null)
           /\ inv[i].response = ConfigurationError
           /\ inv[i].ip # <<>>
           /\ Len(hits[inv[i].ip]) = RATE

\* the six checks, on the values the handler validates: a key that is absent
\* counts as "", and the address is the address or, without one, the postcode
FieldOf(p, k) ==
    IF k = "address" /\ Get(p, "address") = Undefined
    THEN Or(Get(p, "postcode"), EmptyStr)
    ELSE IF Get(p, k) = Undefined THEN EmptyStr ELSE Get(p, k)

NonEmptyText(v) == v.t = "string" /\ \E k \in 1..Len(v.s) : ~IsSpace(v.s[k])

FirstFailing(p) ==
    IF ~NonEmptyText(FieldOf(p, "fullName")) THEN "name"
    ELSE IF ~EmailTest(FieldOf(p, "email")) THEN "valid email"
    ELSE IF ~NonEmptyText(FieldOf(p, "phone")) THEN "phone"
    ELSE IF ~NonEmptyText(FieldOf(p, "address")) THEN "postcode"
    ELSE IF ~Truthy(FieldOf(p, "service")) THEN "service"
    ELSE IF ~NonEmptyText(FieldOf(p, "message")) THEN "message"
    ELSE ""

\* request i reaches the validation chain
ReachesValidation(i) ==
    /\ IsPost(i)
    /\ inv[i].rl # "rejected"
    /\ ~EnvAbsent
    /\ Parses(i)
    /\ Parsed(i).t = "object"
    /\ ~Truthy(Get(Parsed(i), "company"))

OrderedAnswer(i) ==
    /\ FirstFailing(Parsed(i)) # "" =>
           inv[i].response =
               json(400, [error |-> PleaseProvide(FirstFailing(Parsed(i)))])
    /\ FirstFailing(Parsed(i)) = "" => Status(i) # 400

\* C4 as stated: every payload that reaches validation and fails a check is
\* answered 400 "Please provide a {field}." for the first failing check, and
\* one that passes the six checks is not answered 400.
C4_Original ==
    \A i \in Invocations : ReachesValidation(i) => OrderedAnswer(i)

\* the same for the payloads whose required fields, where present, are text,
\* and whose e-mail has a string form
TextFields(p) ==
    /\ \A k \in {"fullName", "phone", "address", "postcode", "message"} :
           Get(p, k) = Undefined \/ Get(p, k).t = "string"
    /\ ~StringThrows(Get(p, "email"))

C4_TextPayloads ==
    \A i \in Invocations :
        ReachesValidation(i) /\ TextFields(Parsed(i)) => OrderedAnswer(i)

\* C5: a request that passed validation (its business e-mail call was made)
\* is answered 200 {ok, id} exactly when that call returned a 2xx result;
\* the confirmation call is made only after that, once, with the response
\* already decided by the business call alone: the response is the same
\* while the confirmation is pending and after it was sent, refused or lost.
IsSuccess(r) ==
    r.statusCode = 200 /\ DOMAIN r.body = {"ok", "id"} /\ r.body.ok = TRUE

IdOf(data) ==
    IF data.t = "object" /\ "message_id" \in DOMAIN data.f
       /\ data.f["message_id"] \notin {Null, EmptyStr, Num(0), Bool(FALSE)}
    THEN data.f["message_id"] ELSE Sent

C5_SuccessIsBusinessOnly ==
    \A i \in Invocations :
      /\ IsSuccess(inv[i].response) => inv[i].ok /\ Calls(i, "business") # {}
      /\ Calls(i, "business") # {} =>
            /\ Cardinality(Calls(i, "business")) = 1
            /\ inv[i].pc \in {"fetch", "json", "returned"}
            /\ inv[i].pc = "returned" => (IsSuccess(inv[i].response) <=> inv[i].ok)
            /\ inv[i].pc = "returned" /\ inv[i].ok =>
                   inv[i].response = json(200, [ok |-> TRUE, id |-> IdOf(inv[i].data)])
            /\ inv[i].pc # "returned" =>
                   inv[i].response = NoResponse /\ inv[i].conf = "none"
            /\ inv[i].conf # "none" <=> inv[i].pc = "returned" /\ inv[i].ok
            /\ Cardinality(Calls(i, "confirmation"))
                   = IF inv[i].conf = "none" THEN 0 ELSE 1

\* a request answered 200 {ok, id} whose confirmation e-mail failed
C5_Witness ==
    \E i \in Invocations :
        /\ inv[i].conf = "failed"
        /\ IsSuccess(inv[i].response)
        /\ Calls(i, "confirmation") # {}

\* the headers make the rate-limit step fail: there are none, or the header
\* it picks is not a string
Shapeless(event) ==
    \/ event.headers = Undefined
    \/ LET x == Get(event.headers, "x-forwarded-for")
           c == Get(event.headers, "client-ip")
       IN  IF Truthy(x) THEN x.t # "string" ELSE Truthy(c) /\ c.t # "string"

\* C6: a request whose rate-limit step fails is never answered 429 by it; it
\* goes on to the configuration check (500 when incomplete), then to parsing
\* (400 on a body that is no JSON), the honeypot and validation, and a valid
\* form is sent to the provider.
C6_FailOpen ==
    \A i \in Invocations :
        IsPost(i) /\ Shapeless(inv[i].event) =>
            /\ Status(i) # 429
            /\ EnvAbsent => inv[i].response = ConfigurationError
            /\ ~EnvAbsent /\ inv[i].event.body = BadText =>
                   inv[i].response = json(400, [error |-> BadJson])
            /\ ~EnvAbsent /\ CompanySet(i) => inv[i].response = Skipped
            /\ ~EnvAbsent /\ inv[i].event.body = JsonText(EmptyObj) =>
                   inv[i].response = json(400, [error |-> PleaseProvide("name")])
            /\ ~EnvAbsent /\ inv[i].event.body = JsonText(ValidForm) =>
                   Calls(i, "business") # {}

\* a valid form whose x-forwarded-for is a number is answered 200 {ok, id},
\* while the client named by its client-ip header is over the limit
C6_Witness ==
    \E i \in Invocations :
        /\ inv[i].event.headers = Headers(Num(7), Str(A_))
        /\ IsSuccess(inv[i].response)
        /\ A_ \in DOMAIN hits
        /\ Len(hits[A_]) > RATE

\* C9 as stated: every POST ends with a response of status 200, 400, 429 or
\* 500, whatever its body; no invocation ends in an uncaught exception.
C9_Original ==
    \A i \in Invocations :
        IsPost(i) =>
            /\ inv[i].pc # "threw"
            /\ inv[i].pc = "returned" => Status(i) \in {200, 400, 429, 500}

====
